---- MODULE Spec2Model ----
(***************************************************************************)
(* Model of the SecretSwap (anon edition) pair contract:                   *)
(* contracts/secretswap_pair/src/contract.rs.                              *)
(*                                                                         *)
(* Amounts are u128 (Uint128) and U256 values.  TLC's integers are 32 bit, *)
(* so an amount is kept as its little-endian sequence of base-2^15 limbs   *)
(* with no leading zero limb (zero is <<>>); equal numbers are equal       *)
(* sequences.  All arithmetic below is exact on that representation, and   *)
(* the 128 and 256 bit limits are the real ones.                           *)
(***************************************************************************)
EXTENDS Integers, Sequences, FiniteSets, TLC

VARIABLES
    pools,          \* <<balance of asset 0, balance of asset 1>> held by the pair
    total_share,    \* supply of the liquidity token
    pair_info,      \* the stored PairInfoRaw
    seed,           \* the stored entropy: the u64 get_random_number returns
    overflow_checks,\* build profile: TRUE when native overflow panics, FALSE when it wraps
    calls,          \* the number of messages and queries served so far
    call,           \* the last call served: its entry point and arguments
    resp            \* the response to that call

vars == <<pools, total_share, pair_info, seed, overflow_checks, calls, call, resp>>

\* what a call of a pure function leaves alone
world == <<pools, total_share, pair_info, seed, overflow_checks, calls>>

----------------------------------------------------------------------------
(* Wide integers: limbs.                                                   *)

LimbBits == 15
Base == 32768

RECURSIVE Norm(_)
Norm(s) ==
    IF s = <<>> THEN s
    ELSE IF s[Len(s)] = 0 THEN Norm(SubSeq(s, 1, Len(s) - 1)) ELSE s

RECURSIVE Big(_)
Big(n) == IF n = 0 THEN <<>> ELSE <<n % Base>> \o Big(n \div Base)

Zero == <<>>
One == <<1>>

Limb(a, i) == IF i <= Len(a) THEN a[i] ELSE 0

Pow2(n) ==
    [i \in 1..(n \div LimbBits + 1) |->
        IF i = n \div LimbBits + 1 THEN 2 ^ (n % LimbBits) ELSE 0]

RECURSIVE LessAt(_, _, _)
LessAt(a, b, i) ==
    IF i = 0 THEN FALSE
    ELSE IF a[i] # b[i] THEN a[i] < b[i] ELSE LessAt(a, b, i - 1)

Less(a, b) == IF Len(a) # Len(b) THEN Len(a) < Len(b) ELSE LessAt(a, b, Len(a))
Leq(a, b) == ~Less(b, a)

RECURSIVE AddAt(_, _, _, _)
AddAt(a, b, i, c) ==
    IF i > Len(a) /\ i > Len(b) THEN (IF c = 0 THEN <<>> ELSE <<c>>)
    ELSE LET s == Limb(a, i) + Limb(b, i) + c
         IN  <<s % Base>> \o AddAt(a, b, i + 1, s \div Base)

Plus(a, b) == AddAt(a, b, 1, 0)

RECURSIVE SubAt(_, _, _, _)
SubAt(a, b, i, c) ==
    IF i > Len(a) THEN <<>>
    ELSE LET s == a[i] - Limb(b, i) - c
         IN  IF s < 0 THEN <<s + Base>> \o SubAt(a, b, i + 1, 1)
             ELSE <<s>> \o SubAt(a, b, i + 1, 0)

\* a - b for b <= a
Minus(a, b) == Norm(SubAt(a, b, 1, 0))

RECURSIVE MulLimb(_, _, _, _)
MulLimb(a, d, i, c) ==
    IF i > Len(a) THEN (IF c = 0 THEN <<>> ELSE <<c>>)
    ELSE LET s == a[i] * d + c
         IN  <<s % Base>> \o MulLimb(a, d, i + 1, s \div Base)

MulSmall(a, d) == IF d = 0 THEN <<>> ELSE MulLimb(a, d, 1, 0)

RECURSIVE MulAt(_, _, _)
MulAt(a, b, j) ==
    IF j > Len(b) THEN <<>>
    ELSE LET rest == MulAt(a, b, j + 1)
         IN  IF rest = <<>> THEN MulSmall(a, b[j])
             ELSE AddAt(MulSmall(a, b[j]), <<0>> \o rest, 1, 0)

Times(a, b) == IF a = <<>> \/ b = <<>> THEN <<>> ELSE Norm(MulAt(a, b, 1))

\* One quotient limb of long division: rem < bn * Base, the top limb of bn >= Base / 2.
QuotDigit(rem, bn) ==
    LET n    == Len(bn)
        qhat == (Limb(rem, n + 1) * Base + Limb(rem, n)) \div bn[n]
        q1   == IF qhat > Base - 1 THEN Base - 1 ELSE qhat
        q2   == IF Less(rem, MulSmall(bn, q1)) THEN q1 - 1 ELSE q1
    IN  IF Less(rem, MulSmall(bn, q2)) THEN q2 - 1 ELSE q2

RECURSIVE DivAt(_, _, _)
DivAt(an, bn, i) ==
    IF i > Len(an) THEN << <<>>, <<>> >>
    ELSE LET h   == DivAt(an, bn, i + 1)
             rem == Norm(<<an[i]>> \o h[2])
             qd  == QuotDigit(rem, bn)
         IN  IF Len(h) = 2 THEN << <<qd>> \o h[1], Minus(rem, MulSmall(bn, qd)) >>
             ELSE h

\* floor(a / b) for b # 0
Quot(a, b) ==
    IF Less(a, b) THEN <<>>
    ELSE LET d == Base \div (b[Len(b)] + 1)
         IN  Norm(DivAt(MulSmall(a, d), MulSmall(b, d), 1)[1])

Rem(a, b) == Minus(a, Times(Quot(a, b), b))

\* the low n bits of a
LowBits(a, n) ==
    LET full == n \div LimbBits
        part == n % LimbBits
    IN  IF Len(a) <= full THEN a
        ELSE Norm([i \in 1..(full + 1) |->
                      IF i <= full THEN a[i] ELSE a[i] % (2 ^ part)])

U128Max == Minus(Pow2(128), One)
U256Max == Minus(Pow2(256), One)

FitsU128(a) == Leq(a, U128Max)
FitsU256(a) == Leq(a, U256Max)

\* U256::low_u128
low_u128(a) == LowBits(a, 128)

----------------------------------------------------------------------------
(* u256_math: checked arithmetic on Option<U256>.                          *)

None == [some |-> FALSE, v |-> Zero]
Some(x) == [some |-> TRUE, v |-> x]

add(a, b) ==
    IF ~a.some \/ ~b.some THEN None
    ELSE LET s == Plus(a.v, b.v) IN IF FitsU256(s) THEN Some(s) ELSE None

sub(a, b) ==
    IF ~a.some \/ ~b.some THEN None
    ELSE IF Less(a.v, b.v) THEN None ELSE Some(Minus(a.v, b.v))

mul(a, b) ==
    IF ~a.some \/ ~b.some THEN None
    ELSE LET p == Times(a.v, b.v) IN IF FitsU256(p) THEN Some(p) ELSE None

div(a, b) ==
    IF ~a.some \/ ~b.some THEN None
    ELSE IF b.v = Zero THEN None ELSE Some(Quot(a.v, b.v))

\* U256::saturating_sub
saturating_sub(a, b) == IF Less(a, b) THEN Zero ELSE Minus(a, b)

----------------------------------------------------------------------------
(* The swap engine.                                                        *)

SwapErr(msg) ==
    [status |-> "err", error |-> msg,
     return_amount |-> Zero, spread_amount |-> Zero, commission_amount |-> Zero]

SwapOk(r, s, c) ==
    [status |-> "ok", error |-> "",
     return_amount |-> r, spread_amount |-> s, commission_amount |-> c]

compute_swap(offer_pool, ask_pool, offer_amount, commission_rate_nom, commission_rate_denom) ==
    LET op    == Some(offer_pool)
        ap    == Some(ask_pool)
        oa    == Some(offer_amount)
        cp    == mul(op, ap)
        gross == sub(ap, div(cp, add(op, oa)))
        ideal == div(mul(oa, ap), op)
    IN  IF ~cp.some THEN SwapErr("Cannot calculate cp")
        ELSE IF ~gross.some THEN SwapErr("Cannot calculate return_amount")
        ELSE IF ~ideal.some THEN SwapErr("Cannot calculate offer_amount * ask_pool / offer_pool")
        ELSE LET spread_amount     == saturating_sub(ideal.v, gross.v)
                 commission_amount == div(mul(gross, Some(commission_rate_nom)),
                                          Some(commission_rate_denom))
                 return_amount     == sub(gross, commission_amount)
             IN  IF ~commission_amount.some
                 THEN SwapErr("Cannot calculate return_amount * commission_rate_nom / commission_rate_denom")
                 ELSE IF ~return_amount.some
                 THEN SwapErr("Cannot calculate return_amount - commission_amount")
                 ELSE SwapOk(low_u128(return_amount.v),
                             low_u128(spread_amount),
                             low_u128(commission_amount.v))

----------------------------------------------------------------------------
(* Input domains.                                                          *)

NoResp == [status |-> "none"]

\* amounts of the swap engine's checks: small values and the edges of u128
SwapAmounts ==
    {Zero, One, Big(2), Big(3), Big(1000), Pow2(64), Pow2(127), U128Max}

\* <<nominator, denominator>> of the commission rate
SwapFees == {<<Zero, One>>, <<Big(3), Big(1000)>>, <<One, One>>, <<One, Zero>>}

InitIdle ==
    /\ pools = <<Zero, Zero>>
    /\ total_share = Zero
    /\ pair_info = [liquidity_token |-> "", asset0_volume |-> Zero, asset1_volume |-> Zero]
    /\ seed = 0
    /\ overflow_checks = TRUE
    /\ calls = 0

InitSwap ==
    /\ InitIdle
    /\ call \in [fn : {"compute_swap"}, offer_pool : SwapAmounts, ask_pool : SwapAmounts,
                 offer_amount : SwapAmounts, fee : SwapFees]
    /\ resp = NoResp

ComputeSwap ==
    /\ call.fn = "compute_swap"
    /\ resp = NoResp
    /\ resp' = compute_swap(call.offer_pool, call.ask_pool, call.offer_amount,
                            call.fee[1], call.fee[2])
    /\ UNCHANGED <<world, call>>

NextSwap == ComputeSwap

SpecSwap == InitSwap /\ [][NextSwap]_vars

----------------------------------------------------------------------------
(* The swap engine's values, computed exactly from the inputs of a call.   *)

\* ask_pool - floor(offer_pool * ask_pool / (offer_pool + offer_amount))
ExactGross(c) ==
    Minus(c.ask_pool,
          Quot(Times(c.offer_pool, c.ask_pool), Plus(c.offer_pool, c.offer_amount)))

\* floor(gross * fee_nom / fee_denom)
ExactCommission(c) == Quot(Times(ExactGross(c), c.fee[1]), c.fee[2])

\* max(0, floor(offer_amount * ask_pool / offer_pool) - gross)
ExactSpread(c) ==
    LET ideal == Quot(Times(c.offer_amount, c.ask_pool), c.offer_pool)
    IN  IF Less(ideal, ExactGross(c)) THEN Zero ELSE Minus(ideal, ExactGross(c))

\* the inputs on which every quotient of the swap formulas is defined
SwapDefined(c) ==
    /\ c.offer_pool # Zero
    /\ c.fee[2] # Zero
    /\ Leq(ExactCommission(c), ExactGross(c))

SwapReturned == call.fn = "compute_swap" /\ resp.status = "ok"

\* C1: for positive pools and a positive offer_amount on which compute_swap
\* succeeds, (offer_pool + offer_amount) * (ask_pool - gross_return) >=
\* offer_pool * ask_pool, gross_return = return_amount + commission_amount.
C1_InvariantNeverDecreases ==
    (/\ SwapReturned
     /\ call.offer_pool # Zero /\ call.ask_pool # Zero /\ call.offer_amount # Zero)
    => LET gross_return == Plus(resp.return_amount, resp.commission_amount)
       IN  /\ Leq(gross_return, call.ask_pool)
           /\ Leq(Times(call.offer_pool, call.ask_pool),
                  Times(Plus(call.offer_pool, call.offer_amount),
                        Minus(call.ask_pool, gross_return)))

\* C2: on every success, commission_amount = floor(gross * fee_nom / fee_denom),
\* return_amount = gross - commission_amount and spread_amount =
\* max(0, floor(offer_amount * ask_pool / offer_pool) - gross).
C2_SwapFormulas ==
    SwapReturned
    => /\ SwapDefined(call)
       /\ resp.commission_amount = ExactCommission(call)
       /\ resp.return_amount = Minus(ExactGross(call), ExactCommission(call))
       /\ resp.spread_amount = ExactSpread(call)

\* C3: whenever an exact amount does not fit 128 bits, compute_swap returns an
\* error; it never returns an amount reduced to its low 128 bits.
C3_NoTruncatedAmount ==
    (/\ call.fn = "compute_swap" /\ resp.status # "none"
     /\ SwapDefined(call)
     /\ \/ ~FitsU128(ExactSpread(call))
        \/ ~FitsU128(ExactCommission(call))
        \/ ~FitsU128(Minus(ExactGross(call), ExactCommission(call))))
    => resp.status = "err"

----------------------------------------------------------------------------
(* Native u128 arithmetic (Uint128, Decimal).                              *)

\* the result of a native computation: a value, or a panic that aborts the call
Val(x) == [panic |-> FALSE, v |-> x]
Panic == [panic |-> TRUE, v |-> Zero]

\* a u128 `+` or `*` whose exact result is x: out of range, it panics in a build
\* with overflow checks and wraps in a build without (oc is the build's choice)
Native(x, oc) ==
    IF FitsU128(x) THEN Val(x) ELSE IF oc THEN Panic ELSE Val(low_u128(x))

\* Decimal keeps value * 10^18 in a u128
DECIMAL_FRACTIONAL == Times(Big(1000000000), Big(1000000000))

\* Decimal::from_ratio
from_ratio(nominator, denominator, oc) ==
    IF denominator = Zero THEN Panic
    ELSE LET p == Native(Times(nominator, DECIMAL_FRACTIONAL), oc)
         IN  IF p.panic THEN Panic ELSE Val(Quot(p.v, denominator))

\* Uint128::multiply_ratio
multiply_ratio(x, nom, denom, oc) ==
    IF denom = Zero THEN Panic
    ELSE LET p == Native(Times(x, nom), oc)
         IN  IF p.panic THEN Panic ELSE Val(Quot(p.v, denom))

\* Uint128 * Decimal
mul_decimal(x, d, oc) ==
    IF x = Zero \/ d = Zero THEN Val(Zero)
    ELSE multiply_ratio(x, d, DECIMAL_FRACTIONAL, oc)

\* math::reverse_decimal: 1 / d, failing on zero
reverse_decimal(d, oc) ==
    IF d = Zero THEN Panic ELSE from_ratio(DECIMAL_FRACTIONAL, d, oc)

----------------------------------------------------------------------------
(* Guard rails: assert_max_spread.                                         *)

GuardOk == [status |-> "ok", error |-> ""]
GuardErr(msg) == [status |-> "err", error |-> msg]
GuardPanic == [status |-> "panic", error |-> ""]

\* the branch taken when expected_return is given
expected_return_check(expected_return, return_amount) ==
    IF Less(return_amount, expected_return)
    THEN GuardErr("Operation fell short of expected_return")
    ELSE GuardOk

\* the branch taken when max_spread and belief_price are both given
belief_price_check(belief_price, max_spread, offer_amount, return_amount, commission_amount, oc) ==
    LET ra  == Native(Plus(return_amount, commission_amount), oc)
        rev == reverse_decimal(belief_price, oc)
        er  == IF rev.panic THEN Panic ELSE mul_decimal(offer_amount, rev.v, oc)
    IN  IF ra.panic \/ er.panic THEN GuardPanic
        ELSE IF ~Less(ra.v, er.v) THEN GuardOk
        ELSE LET spread_amount == saturating_sub(er.v, ra.v)
                 ratio         == from_ratio(spread_amount, er.v, oc)
             IN  IF ratio.panic THEN GuardPanic
                 ELSE IF Less(max_spread, ratio.v)
                 THEN GuardErr("Operation exceeds max spread limit with belief_price")
                 ELSE GuardOk

\* the branch taken when only max_spread is given
max_spread_check(max_spread, return_amount, commission_amount, spread_amount, oc) ==
    LET ra    == Native(Plus(return_amount, commission_amount), oc)
        total == IF ra.panic THEN Panic ELSE Native(Plus(ra.v, spread_amount), oc)
        ratio == IF total.panic THEN Panic ELSE from_ratio(spread_amount, total.v, oc)
    IN  IF ratio.panic THEN GuardPanic
        ELSE IF Less(max_spread, ratio.v)
        THEN GuardErr("Operation exceeds max spread limit")
        ELSE GuardOk

\* assert_max_spread with the max_spread branches tried before expected_return
assert_max_spread_spread_first(belief_price, max_spread, expected_return, offer_amount, return_amount, commission_amount, spread_amount, oc) ==
    IF max_spread.some /\ belief_price.some
    THEN belief_price_check(belief_price.v, max_spread.v, offer_amount, return_amount,
                            commission_amount, oc)
    ELSE IF max_spread.some
    THEN max_spread_check(max_spread.v, return_amount, commission_amount, spread_amount, oc)
    ELSE IF expected_return.some
    THEN expected_return_check(expected_return.v, return_amount)
    ELSE GuardOk

assert_max_spread(belief_price, max_spread, expected_return, offer_amount, return_amount, commission_amount, spread_amount, oc) ==
    IF expected_return.some
    THEN expected_return_check(expected_return.v, return_amount)
    ELSE IF max_spread.some /\ belief_price.some
    THEN belief_price_check(belief_price.v, max_spread.v, offer_amount, return_amount,
                            commission_amount, oc)
    ELSE IF max_spread.some
    THEN max_spread_check(max_spread.v, return_amount, commission_amount, spread_amount, oc)
    ELSE GuardOk

\* the Decimal n / d
Dec(n, d) == Quot(Times(Big(n), DECIMAL_FRACTIONAL), Big(d))

SpreadReturns == {Zero, Big(999), Big(1000), U128Max}
SpreadCommissions == {Zero, One, U128Max}
SpreadSpreads == {Zero, One, Big(1000), Pow2(70), U128Max}
SpreadOffers == {Zero, Big(1000), U128Max}
SpreadExpected == {None, Some(Big(1000)), Some(U128Max)}
SpreadBeliefs == {None, Some(Zero), Some(Dec(1, 1))}
SpreadMaxima == {None, Some(Dec(1, 100)), Some(Dec(1, 3)), Some(Dec(1, 2))}

InitSpread ==
    /\ pools = <<Zero, Zero>>
    /\ total_share = Zero
    /\ pair_info = [liquidity_token |-> "", asset0_volume |-> Zero, asset1_volume |-> Zero]
    /\ seed = 0
    /\ overflow_checks \in BOOLEAN
    /\ calls = 0
    /\ call \in [fn : {"assert_max_spread"},
                 belief_price : SpreadBeliefs, max_spread : SpreadMaxima,
                 expected_return : SpreadExpected, offer_amount : SpreadOffers,
                 return_amount : SpreadReturns, commission_amount : SpreadCommissions,
                 spread_amount : SpreadSpreads]
    /\ resp = NoResp

AssertMaxSpread ==
    /\ call.fn = "assert_max_spread"
    /\ resp = NoResp
    /\ resp' = assert_max_spread(call.belief_price, call.max_spread, call.expected_return,
                                 call.offer_amount, call.return_amount,
                                 call.commission_amount, call.spread_amount,
                                 overflow_checks)
    /\ UNCHANGED <<world, call>>

NextSpread == AssertMaxSpread

SpecSpread == InitSpread /\ [][NextSpread]_vars

SpreadReturned == call.fn = "assert_max_spread" /\ resp.status # "none"

\* C7: when expected_return is supplied, assert_max_spread fails exactly when
\* return_amount < expected_return, whatever belief_price, max_spread,
\* spread_amount and commission_amount are.
C7_ExpectedReturnDecides ==
    (SpreadReturned /\ call.expected_return.some)
    => resp = IF Less(call.return_amount, call.expected_return.v)
              THEN GuardErr("Operation fell short of expected_return")
              ELSE GuardOk

\* expected_return = 1000 with return_amount = 999 is refused although
\* belief_price and max_spread are supplied too
C7_Witness ==
    /\ SpreadReturned
    /\ call.expected_return = Some(Big(1000))
    /\ call.return_amount = Big(999)
    /\ call.belief_price.some /\ call.max_spread.some
    /\ resp.status = "err"

\* C8: with expected_return and belief_price absent, assert_max_spread fails
\* exactly when max_spread is supplied and spread_amount / (return_amount +
\* commission_amount + spread_amount) > max_spread, and succeeds otherwise.
C8_MaxSpreadDecides ==
    (SpreadReturned /\ ~call.expected_return.some /\ ~call.belief_price.some)
    => LET total  == Plus(Plus(call.return_amount, call.commission_amount),
                          call.spread_amount)
           exceeds == /\ call.max_spread.some
                      /\ Less(Times(call.max_spread.v, total),
                              Times(call.spread_amount, DECIMAL_FRACTIONAL))
       IN  resp.status = IF exceeds THEN "err" ELSE "ok"

----------------------------------------------------------------------------
(* The reverse swap computation.                                           *)

OfferErr(msg) ==
    [status |-> "err", error |-> msg,
     offer_amount |-> Zero, spread_amount |-> Zero, commission_amount |-> Zero]

OfferPanic ==
    [status |-> "panic", error |-> "",
     offer_amount |-> Zero, spread_amount |-> Zero, commission_amount |-> Zero]

OfferOk(o, s, c) ==
    [status |-> "ok", error |-> "",
     offer_amount |-> o, spread_amount |-> s, commission_amount |-> c]

\* math::decimal_subtraction: a - b, an error when the result would be negative
decimal_subtraction(a, b) == IF Less(a, b) THEN None ELSE Some(Minus(a, b))

compute_offer_amount(offer_pool, ask_pool, ask_amount, commission_rate_nom, commission_rate_denom, oc) ==
    LET cp   == Native(Times(offer_pool, ask_pool), oc)
        rate == from_ratio(commission_rate_nom, commission_rate_denom, oc)
    IN  IF cp.panic \/ rate.panic THEN OfferPanic
        ELSE LET one_minus_commission == decimal_subtraction(DECIMAL_FRACTIONAL, rate.v)
             IN  IF ~one_minus_commission.some THEN OfferErr("underflow")
                 ELSE LET rev    == reverse_decimal(one_minus_commission.v, oc)
                          before == IF rev.panic THEN Panic
                                    ELSE mul_decimal(ask_amount, rev.v, oc)
                      IN  IF before.panic THEN OfferPanic
                          ELSE IF Less(ask_pool, before.v) THEN OfferErr("underflow")
                          ELSE LET quote == multiply_ratio(cp.v, One,
                                                           Minus(ask_pool, before.v), oc)
                               IN  IF quote.panic THEN OfferPanic
                                   ELSE IF Less(quote.v, offer_pool) THEN OfferErr("underflow")
                                   ELSE LET offer_amount == Minus(quote.v, offer_pool)
                                            price == from_ratio(ask_pool, offer_pool, oc)
                                            ideal == IF price.panic THEN Panic
                                                     ELSE mul_decimal(offer_amount, price.v, oc)
                                            commission == mul_decimal(before.v, rate.v, oc)
                                        IN  IF ideal.panic \/ commission.panic THEN OfferPanic
                                            ELSE OfferOk(offer_amount,
                                                         saturating_sub(ideal.v, before.v),
                                                         commission.v)

----------------------------------------------------------------------------
(* Reserve obfuscation and the read-only queries.                          *)

MaxDraw == 199

\* (nom, denom) from the u64 that get_random_number returns
get_random_nom_denom(random_number) ==
    LET is_plus   == random_number % 2 = 0
        denom     == 10000
        nom_noise == random_number % 100
    IN  IF is_plus THEN <<denom + nom_noise, denom>> ELSE <<denom - nom_noise, denom>>

\* amount.0 * nom / denom in u128
obfuscate(amount, nd, oc) ==
    LET p == Native(Times(amount, Big(nd[1])), oc)
    IN  IF p.panic THEN Panic ELSE Val(Quot(p.v, Big(nd[2])))

\* the contract's view of the chain: the token balances of the pair, the supply of
\* the liquidity token, the stored pair info and the stored entropy
Chain(p, ts, pi, sd) == [pools |-> p, total_share |-> ts, pair_info |-> pi, seed |-> sd]

PoolPanic == [status |-> "panic", error |-> "", assets |-> <<Zero, Zero>>, total_share |-> Zero]

PoolErr(msg) == [status |-> "err", error |-> msg, assets |-> <<Zero, Zero>>, total_share |-> Zero]

\* CanonicalAddr::default(): the liquidity token before PostInitialize
NoAddr == ""

\* the reserves are scaled first; the supply is asked of the liquidity token, whose
\* address does not resolve while it is unset
query_pool(st, oc) ==
    LET nd == get_random_nom_denom(st.seed)
        a0 == obfuscate(st.pools[1], nd, oc)
        a1 == obfuscate(st.pools[2], nd, oc)
        ts == obfuscate(st.total_share, nd, oc)
    IN  IF a0.panic \/ a1.panic THEN PoolPanic
        ELSE IF st.pair_info.liquidity_token = NoAddr THEN PoolErr("liquidity token not set")
        ELSE IF ts.panic THEN PoolPanic
        ELSE [status |-> "ok", error |-> "", assets |-> <<a0.v, a1.v>>, total_share |-> ts.v]

\* asset infos: 1 and 2 are the pair's two tokens, in pool order; 3 is a foreign token
query_simulation(st, offer_asset, fee, oc) ==
    LET nd == get_random_nom_denom(st.seed)
        p0 == obfuscate(st.pools[1], nd, oc)
        p1 == obfuscate(st.pools[2], nd, oc)
    IN  IF p0.panic \/ p1.panic
        THEN [status |-> "panic", error |-> "", return_amount |-> Zero,
              spread_amount |-> Zero, commission_amount |-> Zero]
        ELSE IF offer_asset.info = 1
        THEN compute_swap(p0.v, p1.v, offer_asset.amount, fee[1], fee[2])
        ELSE IF offer_asset.info = 2
        THEN compute_swap(p1.v, p0.v, offer_asset.amount, fee[1], fee[2])
        ELSE SwapErr("Given offer asset is not belong to pairs")

query_reverse_simulation(st, ask_asset, fee, oc) ==
    LET nd == get_random_nom_denom(st.seed)
        p0 == obfuscate(st.pools[1], nd, oc)
        p1 == obfuscate(st.pools[2], nd, oc)
    IN  IF p0.panic \/ p1.panic THEN OfferPanic
        ELSE IF ask_asset.info = 1
        THEN compute_offer_amount(p1.v, p0.v, ask_asset.amount, fee[1], fee[2], oc)
        ELSE IF ask_asset.info = 2
        THEN compute_offer_amount(p0.v, p1.v, ask_asset.amount, fee[1], fee[2], oc)
        ELSE OfferErr("Given ask asset is not blong to pairs")

Here == Chain(pools, total_share, pair_info, seed)

\* the transaction of init is over: its messages, the instantiation of the
\* liquidity token with the PostInitialize hook among them, have run
Created == call.fn # "init"

MaxCalls == 3

QueryPool ==
    /\ calls < MaxCalls
    /\ Created
    /\ calls' = calls + 1
    /\ call' = [fn |-> "query_pool", pre |-> Here]
    /\ resp' = query_pool(Here, overflow_checks)
    /\ UNCHANGED <<pools, total_share, pair_info, seed, overflow_checks>>

QuerySimulation(offer_asset, fee) ==
    /\ calls < MaxCalls
    /\ Created
    /\ calls' = calls + 1
    /\ call' = [fn |-> "query_simulation", pre |-> Here, asset |-> offer_asset, fee |-> fee]
    /\ resp' = query_simulation(Here, offer_asset, fee, overflow_checks)
    /\ UNCHANGED <<pools, total_share, pair_info, seed, overflow_checks>>

QueryReverseSimulation(ask_asset, fee) ==
    /\ calls < MaxCalls
    /\ Created
    /\ calls' = calls + 1
    /\ call' = [fn |-> "query_reverse_simulation", pre |-> Here, asset |-> ask_asset,
                fee |-> fee]
    /\ resp' = query_reverse_simulation(Here, ask_asset, fee, overflow_checks)
    /\ UNCHANGED <<pools, total_share, pair_info, seed, overflow_checks>>

Idle == [fn |-> "idle"]

\* <<reserve 0, reserve 1, share supply>> the queries are checked on
QueryStates == {<<Zero, Zero, Zero>>, <<Big(10000), Big(12345), Big(11110)>>,
                <<Pow2(127), One, Pow2(60)>>, <<Big(3), U128Max, Pow2(120)>>}
QueryAssets == {[info |-> 1, amount |-> Big(100)], [info |-> 2, amount |-> Big(100)],
                [info |-> 3, amount |-> Big(100)]}
QueryFees == {<<Big(3), Big(1000)>>}

InitQuery ==
    /\ \E q \in QueryStates : pools = <<q[1], q[2]>> /\ total_share = q[3]
    /\ pair_info = [liquidity_token |-> "lp_token", asset0_volume |-> Zero,
                    asset1_volume |-> Zero]
    /\ seed \in 0..MaxDraw
    /\ overflow_checks \in BOOLEAN
    /\ calls = MaxCalls - 1      \* the query is the last call of a run
    /\ call = Idle
    /\ resp = NoResp

NextQuery ==
    \/ QueryPool
    \/ \E a \in QueryAssets, f \in QueryFees : QuerySimulation(a, f)
    \/ \E a \in QueryAssets, f \in QueryFees : QueryReverseSimulation(a, f)

SpecQuery == InitQuery /\ [][NextQuery]_vars

\* C5: over all draws get_random_nom_denom returns denom = 10000, an even draw
\* gives nom >= 10000 and an odd draw nom <= 10000, and the returned nom values
\* are exactly the integers 9901..10099.
C5_NomRange ==
    /\ seed \in 0..MaxDraw
    /\ \A d \in 0..MaxDraw :
          LET nd == get_random_nom_denom(d)
          IN  /\ nd[2] = 10000
              /\ (d % 2 = 0) => nd[1] >= 10000
              /\ (d % 2 = 1) => nd[1] <= 10000
    /\ {get_random_nom_denom(d)[1] : d \in 0..MaxDraw} = 9901..10099

\* C6: query_pool reports floor(x * nom / 10000) for reserve[0], reserve[1] and
\* total_share, with the (nom, denom) of the one draw, for every u128 reserve and
\* supply, and leaves the stored state unchanged.
C6_PoolScaled ==
    (call.fn = "query_pool")
    => LET nd == get_random_nom_denom(seed)
           scaled(x) == Quot(Times(x, Big(nd[1])), Big(10000))
       IN  /\ resp.status = "ok"
           /\ resp.assets = <<scaled(pools[1]), scaled(pools[2])>>
           /\ resp.total_share = scaled(total_share)
           /\ call.pre = Here

----------------------------------------------------------------------------
(* The handlers.  A handler returns its result, the pair info it has       *)
(* written to storage and the messages it asks the chain to execute.       *)

\* default CanonicalAddr: the liquidity token is not set yet
Handled(status, error, info, messages, out) ==
    [status |-> status, error |-> error, pair_info |-> info, messages |-> messages,
     out |-> out]

\* a message to a token contract; who is the other party of a transfer
Msg(kind, token, amount, who) ==
    [kind |-> kind, token |-> token, amount |-> amount, who |-> who]

TokenOf(i) == IF i = 1 THEN "token0" ELSE "token1"

NoOut == <<>>

\* try_post_initialize without its permission check
try_post_initialize_unchecked(st, sender) ==
    Handled("ok", "", [st.pair_info EXCEPT !.liquidity_token = sender],
            <<Msg("register_receive", sender, Zero, sender)>>, NoOut)

try_post_initialize(st, sender) ==
    IF st.pair_info.liquidity_token # NoAddr
    THEN Handled("err", "unauthorized", st.pair_info, <<>>, NoOut)
    ELSE Handled("ok", "", [st.pair_info EXCEPT !.liquidity_token = sender],
                 <<Msg("register_receive", sender, Zero, sender)>>, NoOut)

\* math::decimal_multiplication: a * b in 18 decimals
decimal_multiplication(a, b, oc) == Native(Quot(Times(a, b), DECIMAL_FRACTIONAL), oc)

\* one side of the tolerance check: the deposit price, less the tolerance, against
\* the pool price
price_dropped(kept, pool_price) ==
    IF kept.panic \/ pool_price.panic THEN GuardPanic
    ELSE IF Less(pool_price.v, kept.v)
    THEN GuardErr("Operation exceeds max splippage tolerance")
    ELSE GuardOk

price_kept(deposit_price, keep, oc) ==
    IF deposit_price.panic THEN Panic
    ELSE decimal_multiplication(deposit_price.v, keep, oc)

slippage_side(deposit, other_deposit, amount, other_amount, keep, oc) ==
    price_dropped(price_kept(from_ratio(deposit, other_deposit, oc), keep, oc),
                  from_ratio(amount, other_amount, oc))

both_sides(first, second) == IF first.status # "ok" THEN first ELSE second

slippage_within(keep, deposits, amounts, oc) ==
    IF ~keep.some THEN GuardErr("underflow")
    ELSE both_sides(slippage_side(deposits[1], deposits[2], amounts[1], amounts[2],
                                  keep.v, oc),
                    slippage_side(deposits[2], deposits[1], amounts[2], amounts[1],
                                  keep.v, oc))

assert_slippage_tolerance(slippage_tolerance, deposits, amounts, oc) ==
    IF ~slippage_tolerance.some THEN GuardOk
    ELSE slippage_within(decimal_subtraction(DECIMAL_FRACTIONAL, slippage_tolerance.v),
                         deposits, amounts, oc)

RECURSIVE SqrtFrom(_, _)
SqrtFrom(y, x) ==
    LET nx == Quot(Plus(x, Quot(y, x)), Big(2))
    IN  IF Less(nx, x) THEN SqrtFrom(y, nx) ELSE x

\* u256_math::u256_sqrt: the floor of the square root
u256_sqrt(y) ==
    IF y = Zero THEN Some(Zero)
    ELSE Some(SqrtFrom(y, Norm(Pow2((Len(y) * LimbBits) \div 2 + 1))))

\* the initial share without the square root
initial_share_product(prod) == prod

initial_share(prod) == IF prod.some THEN u256_sqrt(prod.v) ELSE None

min_share(share0, share1) ==
    IF ~share0.some \/ ~share1.some THEN None
    ELSE Some(IF Less(share1.v, share0.v) THEN share1.v ELSE share0.v)

truncated(x) == IF x.some THEN Some(low_u128(x.v)) ELSE None

\* the shares minted for deposits into pools amounts with supply total
provide_share(deposits, amounts, total) ==
    IF total = Zero
    THEN truncated(initial_share(mul(Some(deposits[1]), Some(deposits[2]))))
    ELSE truncated(min_share(div(mul(Some(deposits[1]), Some(total)), Some(amounts[1])),
                             div(mul(Some(deposits[2]), Some(total)), Some(amounts[2]))))

provide_response(st, sender, deposits, guard, share) ==
    IF guard.status # "ok"
    THEN Handled(guard.status, guard.error, st.pair_info, <<>>, NoOut)
    ELSE IF st.pair_info.liquidity_token = NoAddr
    THEN Handled("err", "liquidity token not set", st.pair_info, <<>>, NoOut)
    ELSE IF ~share.some
    THEN Handled("err", "Cannot calculate share", st.pair_info, <<>>, NoOut)
    ELSE Handled("ok", "", st.pair_info,
                 <<Msg("transfer_from", "token0", deposits[1], sender),
                   Msg("transfer_from", "token1", deposits[2], sender),
                   Msg("mint", st.pair_info.liquidity_token, share.v, sender)>>,
                 <<share.v>>)

provide_deposits(st, sender, deposits, slippage_tolerance, oc) ==
    provide_response(st, sender, deposits,
                     assert_slippage_tolerance(slippage_tolerance, deposits, st.pools, oc),
                     provide_share(deposits, st.pools, st.total_share))

\* assets: the two deposited assets, each [info, amount]
try_provide_liquidity(st, sender, assets, slippage_tolerance, oc) ==
    LET has(i) == \E k \in 1..2 : assets[k].info = i
        amt(i) == assets[CHOOSE k \in 1..2 : assets[k].info = i].amount
    IN  IF ~has(1) \/ ~has(2)
        THEN Handled("panic", "Wrong asset info is given", st.pair_info, <<>>, NoOut)
        ELSE provide_deposits(st, sender, <<amt(1), amt(2)>>, slippage_tolerance, oc)

\* the refund with the burned amount and the supply exchanged
withdrawn_asset_amount_inverted(current_pool_amount, withdrawn_share_amount, total) ==
    truncated(div(mul(Some(current_pool_amount), Some(total)), Some(withdrawn_share_amount)))

\* the refund rounded up instead of down
withdrawn_asset_amount_rounded_up(current_pool_amount, withdrawn_share_amount, total) ==
    truncated(div(add(mul(Some(current_pool_amount), Some(withdrawn_share_amount)),
                      sub(Some(total), Some(One))),
                  Some(total)))

\* the refund defaulting to zero when it cannot be computed
withdrawn_asset_amount_or_zero(current_pool_amount, withdrawn_share_amount, total) ==
    Some(low_u128(div(mul(Some(current_pool_amount), Some(withdrawn_share_amount)),
                      Some(total)).v))

\* withdrawn_asset_amount = amount * burned / total_share
withdrawn_asset_amount(current_pool_amount, withdrawn_share_amount, total) ==
    truncated(div(mul(Some(current_pool_amount), Some(withdrawn_share_amount)), Some(total)))

withdraw_response(st, sender, amount, r0, r1) ==
    IF ~r0.some \/ ~r1.some
    THEN Handled("err", "Cannot calculate withdrawn amount", st.pair_info, <<>>, NoOut)
    ELSE Handled("ok", "", st.pair_info,
                 <<Msg("transfer", "token0", r0.v, sender),
                   Msg("transfer", "token1", r1.v, sender),
                   Msg("burn", st.pair_info.liquidity_token, amount, sender)>>,
                 <<r0.v, r1.v>>)

\* the address of the liquidity token is resolved first and does not resolve
\* while the token is unset
try_withdraw_liquidity(st, sender, amount) ==
    IF st.pair_info.liquidity_token = NoAddr
    THEN Handled("err", "liquidity token not set", st.pair_info, <<>>, NoOut)
    ELSE withdraw_response(st, sender, amount,
                           withdrawn_asset_amount(st.pools[1], amount, st.total_share),
                           withdrawn_asset_amount(st.pools[2], amount, st.total_share))

\* the end of try_swap: the response from the computed swap and the guard's verdict
swap_response(stored, swap, guard, ask_token, who, swap_data_endpoint) ==
    IF swap.status # "ok"
    THEN Handled("err", swap.error, stored, <<>>, NoOut)
    ELSE IF guard.status # "ok"
    THEN Handled(guard.status, guard.error, stored, <<>>, NoOut)
    ELSE Handled("ok", "", stored,
                 IF swap_data_endpoint
                 THEN <<Msg("transfer", ask_token, swap.return_amount, who),
                        Msg("swap_data", ask_token,
                            Plus(swap.return_amount, swap.commission_amount), who)>>
                 ELSE <<Msg("transfer", ask_token, swap.return_amount, who)>>,
                 <<swap.return_amount, swap.spread_amount, swap.commission_amount>>)

\* try_swap after compute_swap: the guard rails, then the response
swap_guarded(stored, swap, offer_amount, limits, ask_token, who, swap_data_endpoint, oc) ==
    swap_response(stored, swap,
                  assert_max_spread(limits.belief_price, limits.max_spread,
                                    limits.expected_return, offer_amount,
                                    swap.return_amount, swap.commission_amount,
                                    swap.spread_amount, oc),
                  ask_token, who, swap_data_endpoint)

\* try_swap once the pools are read: amounts are the balances of the pair, the
\* offered amount already among them
\* limits: [expected_return, belief_price, max_spread, to]
\* settings: [swap_fee |-> <<nom, denom>>, swap_data_endpoint |-> BOOLEAN]
swap_on_pools(amounts, st, sender, offer_asset, limits, settings, oc) ==
    LET i == offer_asset.info
    IN  IF i \notin {1, 2}
        THEN Handled("err", "Wrong asset info is given", st.pair_info, <<>>, NoOut)
        ELSE
        LET offer_amount == offer_asset.amount
            volume == Native(Plus(IF i = 1 THEN st.pair_info.asset0_volume
                                           ELSE st.pair_info.asset1_volume,
                                  offer_amount), oc)
        IN  IF Less(amounts[i], offer_amount)
            THEN Handled("err", "offer_amount larger than pool_amount + offer_amount",
                         st.pair_info, <<>>, NoOut)
            ELSE IF volume.panic THEN Handled("panic", "", st.pair_info, <<>>, NoOut)
            ELSE swap_guarded(IF i = 1
                              THEN [st.pair_info EXCEPT !.asset0_volume = volume.v]
                              ELSE [st.pair_info EXCEPT !.asset1_volume = volume.v],
                              compute_swap(low_u128(Minus(amounts[i], offer_amount)),
                                           amounts[3 - i], offer_amount,
                                           settings.swap_fee[1], settings.swap_fee[2]),
                              offer_amount, limits, TokenOf(3 - i),
                              IF limits.to = NoAddr THEN sender ELSE limits.to,
                              settings.swap_data_endpoint, oc)

\* try_swap computing on the reserves as the queries report them
try_swap_obfuscated(st, sender, offer_asset, limits, settings, oc) ==
    LET nd == get_random_nom_denom(st.seed)
    IN  swap_on_pools(<<obfuscate(st.pools[1], nd, FALSE).v,
                        obfuscate(st.pools[2], nd, FALSE).v>>,
                      st, sender, offer_asset, limits, settings, oc)

try_swap(st, sender, offer_asset, limits, settings, oc) ==
    swap_on_pools(st.pools, st, sender, offer_asset, limits, settings, oc)

\* hook: [kind |-> "swap" | "withdraw_liquidity" | "none"] with the swap's limits
receive_cw20(st, sender, from, amount, hook, settings, oc) ==
    IF hook.kind = "swap"
    THEN IF sender \notin {"token0", "token1"}
         THEN Handled("err", "unauthorized", st.pair_info, <<>>, NoOut)
         ELSE try_swap(st, from, [info |-> IF sender = "token0" THEN 1 ELSE 2,
                                  amount |-> amount], hook.limits, settings, oc)
    ELSE IF hook.kind = "withdraw_liquidity"
    THEN IF sender # st.pair_info.liquidity_token
         THEN Handled("err", "unauthorized", st.pair_info, <<>>, NoOut)
         ELSE try_withdraw_liquidity(st, from, amount)
    ELSE Handled("err", "data should be given", st.pair_info, <<>>, NoOut)

----------------------------------------------------------------------------
(* The chain around the contract: the token ledgers execute the messages   *)
(* of a successful handler; a failure anywhere reverts the whole call.     *)

Ledger(ok, p, ts) == [ok |-> ok, pools |-> p, total_share |-> ts]

execute(l, m) ==
    LET i == IF m.token = "token0" THEN 1 ELSE 2
    IN  IF ~l.ok THEN l
        ELSE IF m.kind = "transfer_from"
        THEN LET b == Plus(l.pools[i], m.amount)
             IN  Ledger(FitsU128(b), [l.pools EXCEPT ![i] = b], l.total_share)
        ELSE IF m.kind = "transfer"
        THEN IF Less(l.pools[i], m.amount) THEN Ledger(FALSE, l.pools, l.total_share)
             ELSE Ledger(TRUE, [l.pools EXCEPT ![i] = Minus(l.pools[i], m.amount)],
                         l.total_share)
        ELSE IF m.kind = "mint"
        THEN LET t == Plus(l.total_share, m.amount)
             IN  Ledger(FitsU128(t), l.pools, t)
        ELSE IF m.kind = "burn"
        THEN IF Less(l.total_share, m.amount) THEN Ledger(FALSE, l.pools, l.total_share)
             ELSE Ledger(TRUE, l.pools, Minus(l.total_share, m.amount))
        ELSE l

RECURSIVE execute_all(_, _, _)
execute_all(l, msgs, k) ==
    IF k > Len(msgs) THEN l ELSE execute_all(execute(l, msgs[k]), msgs, k + 1)

\* a call whose writes stay when the handler returns an error
settled_keeping_writes(before, r, l, entropy) ==
    IF r.status = "ok" /\ l.ok
    THEN [resp |-> r, pools |-> l.pools, total_share |-> l.total_share,
          pair_info |-> r.pair_info, seed |-> entropy]
    ELSE [resp |-> IF r.status = "ok" THEN [r EXCEPT !.status = "reverted"] ELSE r,
          pools |-> before.pools, total_share |-> before.total_share,
          pair_info |-> r.pair_info, seed |-> before.seed]

\* the end of a handle call made in state before: the handler ran on st (before,
\* plus what the caller moved in) and answered r, and its messages ran; state
\* changes only when all of it succeeds
settled(before, r, l, entropy) ==
    IF r.status = "ok" /\ l.ok
    THEN [resp |-> r, pools |-> l.pools, total_share |-> l.total_share,
          pair_info |-> r.pair_info, seed |-> entropy]
    ELSE [resp |-> IF r.status = "ok" THEN [r EXCEPT !.status = "reverted"] ELSE r,
          pools |-> before.pools, total_share |-> before.total_share,
          pair_info |-> before.pair_info, seed |-> before.seed]

outcome(before, st, r, entropy) ==
    settled(before, r, execute_all(Ledger(TRUE, st.pools, st.total_share), r.messages, 1),
            entropy)

Apply(c, o) ==
    /\ calls' = calls + 1
    /\ call' = c
    /\ resp' = o.resp
    /\ pools' = o.pools
    /\ total_share' = o.total_share
    /\ pair_info' = o.pair_info
    /\ seed' = o.seed
    /\ UNCHANGED overflow_checks

\* handle: the dispatch on the message; c carries the message and its sender, and
\* for a swap the factory's settings
handle(st, c, oc) ==
    IF c.fn = "post_initialize" THEN try_post_initialize(st, c.sender)
    ELSE IF c.fn = "provide_liquidity"
    THEN try_provide_liquidity(st, c.sender, c.assets, c.slippage_tolerance, oc)
    ELSE receive_cw20(st, c.sender, c.from, c.amount, c.hook, c.settings, oc)

\* what the pair sees when a token contract calls Receive: the token has already
\* moved amount to the pair
received(st, sender, amount) ==
    IF sender = "token0" THEN [st EXCEPT !.pools[1] = Plus(st.pools[1], amount)]
    ELSE IF sender = "token1" THEN [st EXCEPT !.pools[2] = Plus(st.pools[2], amount)]
    ELSE st

\* one handle call: c.pre is the state the handler reads
Handle(c, entropy) ==
    /\ FitsU128(c.pre.pools[1]) /\ FitsU128(c.pre.pools[2])
    /\ Apply(c, outcome(Here, c.pre, handle(c.pre, c, overflow_checks), entropy))

NoSettings == [swap_fee |-> <<Zero, One>>, swap_data_endpoint |-> FALSE]

\* the liquidity token calls PostInitialize from its instantiation, inside the
\* transaction of init; later anyone may send the message
PostInitialize(sender, entropy) ==
    /\ calls < MaxCalls
    /\ Created \/ sender = "lp_token"
    /\ Handle([fn |-> "post_initialize", pre |-> Here, sender |-> sender], entropy)

ProvideLiquidity(sender, assets, slippage_tolerance, entropy) ==
    /\ calls < MaxCalls
    /\ Created
    /\ Handle([fn |-> "provide_liquidity", pre |-> Here, sender |-> sender,
               assets |-> assets, slippage_tolerance |-> slippage_tolerance], entropy)

ReceiveSwap(sender, from, amount, limits, settings, entropy) ==
    /\ calls < MaxCalls
    /\ Created
    /\ Handle([fn |-> "swap", pre |-> received(Here, sender, amount), sender |-> sender,
               from |-> from, amount |-> amount,
               hook |-> [kind |-> "swap", limits |-> limits], settings |-> settings],
              entropy)

\* the liquidity token calls Receive after it has moved amount shares to the pair
ReceiveWithdraw(sender, from, amount, entropy) ==
    /\ calls < MaxCalls
    /\ Created
    /\ sender = pair_info.liquidity_token => Leq(amount, total_share)
    /\ Handle([fn |-> "withdraw_liquidity", pre |-> Here, sender |-> sender,
               from |-> from, amount |-> amount,
               hook |-> [kind |-> "withdraw_liquidity"], settings |-> NoSettings],
              entropy)

\* the inputs of a run
Entropy == {2, 51}
Callers == {"lp_token", "user"}
NoLimits == [expected_return |-> None, belief_price |-> None, max_spread |-> None,
             to |-> NoAddr]
Deposits ==
    {<<[info |-> 1, amount |-> Big(1000)], [info |-> 2, amount |-> Big(1000)]>>,
     <<[info |-> 2, amount |-> Big(1000)], [info |-> 1, amount |-> Big(3)]>>}
Tolerances == {None, Some(Dec(1, 2))}
SwapSenders == {"token0", "token1", "user"}
OfferAmounts == {Big(3), Big(1000)}
Limits == {NoLimits, [NoLimits EXCEPT !.expected_return = Some(Big(3))]}
Settings == {[swap_fee |-> <<Big(3), Big(1000)>>, swap_data_endpoint |-> TRUE]}
BurnAmounts == {One, Big(1000)}
SimAssets == {[info |-> 1, amount |-> Big(100)], [info |-> 2, amount |-> Big(100)]}

\* the messages init returns: a viewing key and a receive registration at each
\* asset token, the instantiation of the liquidity token, which carries the
\* PostInitialize hook, and the factory's hook
init_messages ==
    <<Msg("set_viewing_key", TokenOf(1), Zero, TokenOf(1)),
      Msg("register_receive", TokenOf(1), Zero, TokenOf(1)),
      Msg("set_viewing_key", TokenOf(2), Zero, TokenOf(2)),
      Msg("register_receive", TokenOf(2), Zero, TokenOf(2)),
      Msg("instantiate", "lp_token", Zero, "post_initialize"),
      Msg("init_hook", "factory", Zero, "factory")>>

\* the state init leaves: no liquidity token yet, no volume, empty pools
Init ==
    /\ pools = <<Zero, Zero>>
    /\ total_share = Zero
    /\ pair_info = [liquidity_token |-> NoAddr, asset0_volume |-> Zero,
                    asset1_volume |-> Zero]
    /\ seed \in Entropy
    /\ overflow_checks \in BOOLEAN
    /\ calls = 0
    /\ call = [fn |-> "init"]
    /\ resp = Handled("ok", "", pair_info, init_messages, NoOut)

Next ==
    \/ \E s \in Callers, e \in Entropy : PostInitialize(s, e)
    \/ \E a \in Deposits, t \in Tolerances, e \in Entropy :
          ProvideLiquidity("user", a, t, e)
    \/ \E s \in SwapSenders, a \in OfferAmounts, l \in Limits, g \in Settings,
          e \in Entropy : ReceiveSwap(s, "user", a, l, g, e)
    \/ \E s \in Callers, a \in BurnAmounts, e \in Entropy : ReceiveWithdraw(s, "user", a, e)
    \/ QueryPool
    \/ \E a \in SimAssets, g \in Settings : QuerySimulation(a, g.swap_fee)
    \/ \E a \in SimAssets, g \in Settings : QueryReverseSimulation(a, g.swap_fee)

Spec == Init /\ [][Next]_vars

HandlerCalls == {"swap", "provide_liquidity", "withdraw_liquidity"}

\* the draws a call is run again with
MaxRedraw == 59
Draws == 0..MaxRedraw

\* the handler of the last call, run again on the state it read with draw d stored
Redrawn(d) == handle([call.pre EXCEPT !.seed = d], call, overflow_checks)

SameResult(r) ==
    /\ (r.status = "ok") = (resp.status \in {"ok", "reverted"})
    /\ r.error = resp.error
    /\ r.out = resp.out
    /\ r.messages = resp.messages
    /\ r.pair_info = resp.pair_info

\* C4: the obfuscation draw never influences committed results. Whatever draw is
\* stored when try_swap, try_provide_liquidity or try_withdraw_liquidity runs on
\* given reserves, supply, fee and inputs, the amounts returned (return, spread
\* and commission, minted shares, refunds), the messages sent and the stored
\* pair info are the same.
C4_DrawNeverCommitted ==
    call.fn \in HandlerCalls => \A d \in Draws : SameResult(Redrawn(d))

\* a swap has gone through on reserves that the queries of the same state report
\* differently under different draws
C4_Witness ==
    /\ call.fn = "swap"
    /\ resp.status = "ok"
    /\ \E d \in Draws :
          query_simulation([call.pre EXCEPT !.seed = d],
                           [info |-> 1, amount |-> call.amount], call.settings.swap_fee,
                           overflow_checks)
          # query_simulation(call.pre, [info |-> 1, amount |-> call.amount],
                             call.settings.swap_fee, overflow_checks)

----------------------------------------------------------------------------
(* Liquidity round trips: a pool with liquidity, withdrawals, and deposits *)
(* of exactly what a withdrawal refunded.                                  *)

\* reserves: balanced, skewed 1:100, near-empty, uneven, and the edge of u128
LiquidityPools ==
    {<<Big(1000), Big(1000)>>, <<One, Big(100)>>, <<Big(1000), Big(10)>>, <<One, One>>,
     <<Big(3), Big(3)>>, <<Big(7), Big(5)>>, <<U128Max, Pow2(64)>>}
LiquidityShares == {One, Big(2), Big(3), Big(100), Pow2(100)}
ShareAmounts == {One, Big(2), Big(3), Big(50), Big(100), Pow2(99), Pow2(100)}

InitLiquidity ==
    /\ pools \in LiquidityPools
    /\ total_share \in LiquidityShares
    /\ pair_info = [liquidity_token |-> "lp_token", asset0_volume |-> Zero,
                    asset1_volume |-> Zero]
    /\ seed \in Entropy
    /\ overflow_checks \in BOOLEAN
    /\ calls = 0
    /\ call = Idle
    /\ resp = NoResp

\* the holder deposits exactly what the withdrawal before refunded
Redeposit(entropy) ==
    /\ calls < MaxCalls
    /\ call.fn = "withdraw_liquidity"
    /\ resp.status = "ok"
    /\ Handle([fn |-> "provide_liquidity", pre |-> Here, sender |-> call.from,
               assets |-> <<[info |-> 1, amount |-> resp.out[1]],
                            [info |-> 2, amount |-> resp.out[2]]>>,
               slippage_tolerance |-> None, burned |-> call.amount], entropy)

NextLiquidity ==
    \/ \E a \in ShareAmounts, e \in Entropy : ReceiveWithdraw("lp_token", "user", a, e)
    \/ \E e \in Entropy : Redeposit(e)

SpecLiquidity == InitLiquidity /\ [][NextLiquidity]_vars

Redeposited == call.fn = "provide_liquidity" /\ resp.status \in {"ok", "reverted"}

\* C9 as stated: after a withdrawal of burn_amount <= total_share, depositing
\* exactly the two refunded amounts into the resulting pool mints at most
\* burn_amount shares.
C9_RoundTripMintsNoMore == Redeposited => Leq(resp.out[1], call.burned)

\* C9, amended: the same when burn_amount < total_share, so that shares remain
\* after the withdrawal. (A deposit into a pool without shares mints
\* floor(sqrt(deposit0 * deposit1)), whatever was burned.)
C9_PartialRoundTripMintsNoMore ==
    Redeposited /\ call.pre.total_share # Zero => Leq(resp.out[1], call.burned)

\* part of a skewed pool was withdrawn and deposited again, and the deposit minted
\* exactly the shares burned
C9_Witness ==
    /\ Redeposited
    /\ call.pre.total_share # Zero
    /\ call.pre.pools[1] # call.pre.pools[2]
    /\ resp.out[1] = call.burned

\* C10: for burn_amount <= total_share the amount withdrawn per side,
\* floor(reserve * burn_amount / total_share), is at most the reserve: the
\* refunds are paid and what stays in the pool is the reserve less the refund.
C10_RefundWithinReserve ==
    call.fn = "withdraw_liquidity" /\ resp.status # "err" =>
        /\ resp.status = "ok"
        /\ \A i \in 1..2 :
              /\ Leq(resp.out[i], call.pre.pools[i])
              /\ pools[i] = Minus(call.pre.pools[i], resp.out[i])

\* a second withdrawal in a row has taken the whole of a reserve
C10_Witness ==
    /\ call.fn = "withdraw_liquidity"
    /\ resp.status = "ok"
    /\ calls = 2
    /\ call.pre.pools[1] # Zero
    /\ resp.out[1] = call.pre.pools[1]

----------------------------------------------------------------------------
(* The share arithmetic on its own: the refunds of a withdrawal and the    *)
(* shares of a deposit, for balances and supplies of the whole u128 range. *)

\* <<reserve 0, reserve 1, share supply>>
ShareStates ==
    {<<Zero, Zero, Zero>>, <<Big(1000), Big(10), Zero>>, <<U128Max, U128Max, Zero>>,
     <<Big(1000), Big(1000), Big(1000)>>, <<One, Big(100), Big(10)>>,
     <<One, One, Pow2(127)>>, <<Zero, Big(5), Big(3)>>, <<U128Max, Big(7), Pow2(64)>>}
ShareDeposits ==
    {Zero, One, Big(2), Big(100), Big(101), Big(400), Pow2(64), Pow2(127), U128Max}
ShareBurns == {Zero, One, Big(3), Big(1000), Pow2(127), U128Max}

InitShares ==
    /\ \E q \in ShareStates : pools = <<q[1], q[2]>> /\ total_share = q[3]
    /\ pair_info = [liquidity_token |-> "lp_token", asset0_volume |-> Zero,
                    asset1_volume |-> Zero]
    /\ seed = 0
    /\ overflow_checks = TRUE
    /\ calls = 0
    /\ call = Idle
    /\ resp = NoResp

\* try_withdraw_liquidity on the balances and supply read
TryWithdrawLiquidity(amount) ==
    /\ call = Idle
    /\ call' = [fn |-> "try_withdraw_liquidity", pre |-> Here, amount |-> amount]
    /\ resp' = try_withdraw_liquidity(Here, "user", amount)
    /\ UNCHANGED world

\* the share of try_provide_liquidity on the balances and supply read
ProvideShare(deposits) ==
    /\ call = Idle
    /\ call' = [fn |-> "provide_share", pre |-> Here, deposits |-> deposits]
    /\ resp' = provide_share(deposits, pools, total_share)
    /\ UNCHANGED world

NextShares ==
    \/ \E a \in ShareBurns : TryWithdrawLiquidity(a)
    \/ \E d0 \in ShareDeposits, d1 \in ShareDeposits : ProvideShare(<<d0, d1>>)

SpecShares == InitShares /\ [][NextShares]_vars

\* C11: a withdrawal with total_share = 0 returns an error for every reserve and
\* burn_amount: no panic, no zero refunds, no refund or burn message.
C11_NoSupplyIsAnError ==
    call.fn = "try_withdraw_liquidity" /\ call.pre.total_share = Zero
    => /\ resp.status = "err"
       /\ resp.messages = <<>>
       /\ resp.out = NoOut

\* shares were sent for withdrawal from a pair that holds reserves but has no supply
C11_Witness ==
    /\ call.fn = "try_withdraw_liquidity"
    /\ call.pre.total_share = Zero
    /\ call.pre.pools = <<Big(1000), Big(10)>>
    /\ call.amount = Big(3)
    /\ resp.status = "err"


PositiveShares(st) == st.pools[1] # Zero /\ st.pools[2] # Zero /\ st.total_share # Zero

MoreOfFirst(d) == provide_share(<<d, call.deposits[2]>>, call.pre.pools, call.pre.total_share)

MoreOfSecond(d) == provide_share(<<call.deposits[1], d>>, call.pre.pools, call.pre.total_share)

\* C12: with positive reserves and a positive share supply, the shares minted
\* for a deposit do not decrease when one deposit amount grows and the other
\* is held fixed, over all deposits on which the computation succeeds.
C12_SharesMonotone ==
    (call.fn = "provide_share" /\ PositiveShares(call.pre) /\ resp.some)
        => \A d \in ShareDeposits :
              /\ (Leq(call.deposits[1], d) /\ MoreOfFirst(d).some)
                    => Leq(resp.v, MoreOfFirst(d).v)
              /\ (Leq(call.deposits[2], d) /\ MoreOfSecond(d).some)
                    => Leq(resp.v, MoreOfSecond(d).v)

\* C13: with no shares outstanding, the shares minted for a deposit are the
\* integer square root of the product of the two deposit amounts: the largest
\* s with s * s <= deposit0 * deposit1.
C13_InitialSharesAreRoot ==
    (call.fn = "provide_share" /\ call.pre.total_share = Zero)
        => /\ resp.some
           /\ Leq(Times(resp.v, resp.v), Times(call.deposits[1], call.deposits[2]))
           /\ Less(Times(call.deposits[1], call.deposits[2]),
                   Times(Plus(resp.v, One), Plus(resp.v, One)))
           /\ (call.deposits = <<Big(100), Big(400)>> => resp.v = Big(200))
           /\ (call.deposits = <<Big(100), Big(101)>> => resp.v = Big(100))

C13_Witness ==
    /\ call.fn = "provide_share"
    /\ call.pre.total_share = Zero
    /\ call.deposits = <<Big(100), Big(101)>>
    /\ resp = Some(Big(100))


\* C15: compute_swap returns an error whenever one of the two reserves is
\* zero, for every offer amount and commission rate.
C15_DegeneratePoolIsAnError ==
    (call.fn = "compute_swap" /\ resp.status # "none"
        /\ (call.offer_pool = Zero \/ call.ask_pool = Zero))
        => resp.status = "err"


----------------------------------------------------------------------------
(* The pure functions on their own: the swap engine, its inverse and the    *)
(* two guards, each called once on inputs drawn by Init; the inverse is     *)
(* also called on the amount a swap has just returned.                      *)

OfferPools == {Zero, One, Big(10), Big(1000), Pow2(64), U128Max}
OfferAsks == {Zero, One, Big(91), Big(1000), U128Max}
OfferFees == {<<Zero, One>>, <<Big(3), Big(1000)>>, <<One, One>>}

SlippageTolerances == {None, Some(Dec(1, 100)), Some(Dec(2, 1))}
SlippageAmounts == {Zero, One, Big(1000), U128Max}

InitPure ==
    /\ pools = <<Zero, Zero>>
    /\ total_share = Zero
    /\ pair_info = [liquidity_token |-> "", asset0_volume |-> Zero, asset1_volume |-> Zero]
    /\ seed = 0
    /\ overflow_checks \in BOOLEAN
    /\ calls = 0
    /\ resp = NoResp

InitOffer ==
    /\ InitPure
    /\ call \in [fn : {"compute_offer_amount"}, offer_pool : OfferPools,
                 ask_pool : OfferPools, ask_amount : OfferAsks, fee : OfferFees,
                 swapped : {None}]

InitSlippage ==
    /\ InitPure
    /\ call \in [fn : {"assert_slippage_tolerance"},
                 slippage_tolerance : SlippageTolerances,
                 deposits : SlippageAmounts \X SlippageAmounts,
                 amounts : SlippageAmounts \X SlippageAmounts]

InitCore == InitSwap \/ InitSpread \/ InitOffer \/ InitSlippage

ComputeOfferAmount ==
    /\ call.fn = "compute_offer_amount"
    /\ resp = NoResp
    /\ resp' = compute_offer_amount(call.offer_pool, call.ask_pool, call.ask_amount,
                                    call.fee[1], call.fee[2], overflow_checks)
    /\ UNCHANGED <<world, call>>

\* the inverse, asked for the amount the swap has just returned
OfferForReturn ==
    /\ call.fn = "compute_swap"
    /\ resp.status = "ok"
    /\ call' = [fn |-> "compute_offer_amount", offer_pool |-> call.offer_pool,
                ask_pool |-> call.ask_pool, ask_amount |-> resp.return_amount,
                fee |-> call.fee, swapped |-> Some(call.offer_amount)]
    /\ resp' = compute_offer_amount(call.offer_pool, call.ask_pool, resp.return_amount,
                                    call.fee[1], call.fee[2], overflow_checks)
    /\ UNCHANGED world

AssertSlippageTolerance ==
    /\ call.fn = "assert_slippage_tolerance"
    /\ resp = NoResp
    /\ resp' = assert_slippage_tolerance(call.slippage_tolerance, call.deposits,
                                         call.amounts, overflow_checks)
    /\ UNCHANGED <<world, call>>

NextCore ==
    \/ ComputeSwap
    \/ AssertMaxSpread
    \/ ComputeOfferAmount
    \/ OfferForReturn
    \/ AssertSlippageTolerance

SpecCore == InitCore /\ [][NextCore]_vars

Gap(a, b) == IF Less(a, b) THEN Minus(b, a) ELSE Minus(a, b)

\* the truncation of two calls, one unit each
RoundTripTolerance == Big(2)

\* C14: for positive reserves and a commission rate below one, when
\* compute_swap has returned r for an offer amount, compute_offer_amount for
\* r succeeds and its offer amount is within one unit per call of the
\* original offer amount.
C14_RoundTripWithinTruncation ==
    (call.fn = "compute_offer_amount" /\ call.swapped.some
        /\ call.offer_pool # Zero /\ call.ask_pool # Zero
        /\ Less(call.fee[1], call.fee[2]))
        => /\ resp.status = "ok"
           /\ Leq(Gap(resp.offer_amount, call.swapped.v), RoundTripTolerance)

PureCalls == {"compute_offer_amount", "assert_max_spread", "assert_slippage_tolerance"}

ProperFee(c) == c.fee[2] # Zero /\ Leq(c.fee[1], c.fee[2])

\* the quoted amount before commission, ask_amount / (1 - rate), reaches ask_pool
Exhausts(c) ==
    Leq(Times(c.ask_pool, Minus(c.fee[2], c.fee[1])), Times(c.ask_amount, c.fee[2]))

\* C16: compute_offer_amount, assert_max_spread and assert_slippage_tolerance
\* end in a success value or a returned error on every typed input, never in
\* a panic; compute_offer_amount returns an error when the quoted amount
\* exhausts the pool or the product of the reserves overflows.
C16_PureFunctionsTotal ==
    /\ (call.fn \in PureCalls /\ resp.status # "none"
            /\ (call.fn = "compute_offer_amount" => ProperFee(call)))
          => resp.status \in {"ok", "err"}
    /\ (call.fn = "compute_offer_amount" /\ resp.status # "none" /\ ProperFee(call)
            /\ (Exhausts(call) \/ ~FitsU128(Times(call.offer_pool, call.ask_pool))))
          => resp.status = "err"


\* the errors try_swap passes on from compute_swap and from assert_max_spread
SwapRejections ==
    {"Cannot calculate cp", "Cannot calculate return_amount",
     "Cannot calculate offer_amount * ask_pool / offer_pool",
     "Cannot calculate return_amount * commission_rate_nom / commission_rate_denom",
     "Cannot calculate return_amount - commission_amount",
     "Operation fell short of expected_return",
     "Operation exceeds max spread limit with belief_price",
     "Operation exceeds max spread limit"}

SwapRejected == call.fn = "swap" /\ resp.status = "err" /\ resp.error \in SwapRejections

\* the pair info a successful swap stores: the volume of the offered side
\* grown by the offered amount
Counted(c) ==
    IF c.sender = "token0"
    THEN [c.pre.pair_info EXCEPT !.asset0_volume = Plus(@, c.amount)]
    ELSE [c.pre.pair_info EXCEPT !.asset1_volume = Plus(@, c.amount)]

PostInitialized == call'.fn = "post_initialize" /\ calls' = calls + 1

\* C18: the liquidity token address is set at most once. The stored
\* liquidity_token changes only in a successful PostInitialize made while it is
\* the unset default, and becomes the sender; a PostInitialize made once it is
\* set returns unauthorized and leaves the stored pair info unchanged; no other
\* handler changes it.
C18_LiquidityTokenSetOnce ==
    [][/\ pair_info'.liquidity_token # pair_info.liquidity_token
            => /\ PostInitialized
               /\ pair_info.liquidity_token = NoAddr
               /\ resp'.status = "ok"
               /\ pair_info'.liquidity_token = call'.sender
       /\ (PostInitialized /\ resp'.status = "ok")
            => /\ pair_info.liquidity_token = NoAddr
               /\ pair_info'.liquidity_token = call'.sender
       /\ (PostInitialized /\ pair_info.liquidity_token # NoAddr)
            => /\ resp'.status = "err"
               /\ resp'.error = "unauthorized"
               /\ resp'.pair_info = pair_info
               /\ pair_info' = pair_info]_vars

\* a second PostInitialize, from another sender, has been refused
C18_Witness ==
    /\ call.fn = "post_initialize"
    /\ call.sender = "user"
    /\ call.pre.pair_info.liquidity_token = "lp_token"
    /\ resp.error = "unauthorized"
    /\ pair_info.liquidity_token = "lp_token"

====
